---- MODULE Spec2Model ----
(***************************************************************************)
(* The task API of the todo application: the JSON file that holds the     *)
(* document {tasks, nextId} (server/utils/storage.js), the four request   *)
(* handlers of server/controllers/taskController.js as they are mounted   *)
(* by server/routes/tasks.js, and the requests that drive them.           *)
(*                                                                         *)
(* A handler is an async function: it runs without interruption up to an  *)
(* await, so each handler is cut at its awaits (readData, writeData).     *)
(* A request slot goes idle -> reading -> writing -> done; the step that   *)
(* leaves "reading" is the file read together with the code that runs up  *)
(* to the next await, the step that leaves "writing" is the file write    *)
(* together with the response.                                            *)
(***************************************************************************)
EXTENDS Integers, Sequences, FiniteSets, TLC

VARIABLES
    file,      \* the backing file data.json: absent/unparsable, or a document
    pc,        \* per request slot: "idle", "reading", "writing", "done"
    req,       \* per slot: the request being handled (method, params.id, body)
    data,      \* per slot: the handler's local `data` object (as loaded: base,
               \* as mutated: doc) and taskIndex
    resp,      \* per slot: the response sent (status 0: none yet)
    io,        \* per slot: readData / writeData calls made by the request
    returned,  \* ids sent in 201 responses so far (history)
    ledger     \* the tasks as the success responses so far describe them (history)

vars == <<file, pc, req, data, resp, io, returned, ledger>>

\* Creates are accepted while the id counter is below MaxNextId.
MaxNextId == 3

\* With two requests in flight, creates are accepted while it is below MaxNextIdC.
MaxNextIdC == 2

\* The documented title limit (isLength max of the validation middleware).
MaxTitleLen == 200

Slots == {"r1", "r2"}

(***************************************************************************)
(* JSON values of a request body field.  A string is one character       *)
(* repeated len times (the handlers look only at emptiness and identity). *)
(***************************************************************************)
Undefined == [type |-> "undefined", ch |-> "", len |-> 0, b |-> FALSE, num |-> 0]
JStr(c, n) ==
    [type |-> "string", ch |-> IF n = 0 THEN "" ELSE c, len |-> n, b |-> FALSE, num |-> 0]
JBool(v) == [type |-> "boolean", ch |-> "", len |-> 0, b |-> v, num |-> 0]
JNum(n) == [type |-> "number", ch |-> "", len |-> 0, b |-> FALSE, num |-> n]

\* JavaScript truthiness, as used by `!title`.
Truthy(v) ==
    CASE v.type = "undefined" -> FALSE
      [] v.type = "string" -> v.len > 0
      [] v.type = "boolean" -> v.b
      [] v.type = "number" -> v.num # 0

TypeOf(v) == v.type

\* Request bodies as a client can send them: an absent field reads as undefined.
BodyWithId(id, title, completed) == [id |-> id, title |-> title, completed |-> completed]
Body(title, completed) == BodyWithId(Undefined, title, completed)

Titles ==
    { Undefined, JStr("a", 0), JStr("a", 1), JStr("a", MaxTitleLen),
      JStr("a", MaxTitleLen + 1) }
Completeds == { Undefined, JBool(TRUE), JBool(FALSE), JStr("a", 1) }

\* POST bodies: every combination of the title and completed values above.
CreateBodies == { Body(t, c) : t \in Titles, c \in Completeds }

\* PUT bodies: empty, one field, both fields, and fields the documented rules forbid.
UpdateBodies ==
    { Body(Undefined, Undefined),
      Body(JStr("a", 1), Undefined),
      Body(Undefined, JBool(TRUE)),
      Body(Undefined, JBool(FALSE)),
      Body(JStr("a", MaxTitleLen), JBool(TRUE)),
      Body(JStr("a", 0), Undefined),
      Body(JStr("a", MaxTitleLen + 1), JBool(FALSE)),
      Body(Undefined, JStr("a", 1)) }

\* The :id path parameters: every id a task can have, and one no task has.
IdParams == 1..MaxNextId

NoTask == [id |-> 0, title |-> Undefined, completed |-> Undefined]
DefaultDoc == [tasks |-> <<>>, nextId |-> 1]

NoFile == [present |-> FALSE, doc |-> DefaultDoc]
FileOf(doc) == [present |-> TRUE, doc |-> doc]

\* The JSON value null, and a file whose text is `null`: JSON.parse accepts it,
\* and reading a property of the parsed value throws a TypeError.
Null == [type |-> "null"]
NullFile == FileOf(Null)

\* Variant: the default document starts its counter at 0.
readData_ZeroDefault(f) == IF f.present THEN f.doc ELSE [tasks |-> <<>>, nextId |-> 0]

\* readData: the parsed file, or the default structure when reading fails.
readData(f) == IF f.present THEN f.doc ELSE DefaultDoc

(***************************************************************************)
(* parseInt(req.params.id).  A path parameter is a sequence of characters. *)
(* parseInt skips leading blanks, reads an optional sign and then decimal *)
(* digits up to the first other character; with no digit it gives NaN.    *)
(* (Parameters starting with 0x, which parseInt reads as hexadecimal, are *)
(* not among the inputs.)  NaN is kept as a number that no parameter      *)
(* parses to; === is false whenever a side is NaN.                        *)
(***************************************************************************)
NaN == -1000000

StrictEq(a, b) == a # NaN /\ b # NaN /\ a = b

DigitChars == <<"0", "1", "2", "3", "4", "5", "6", "7", "8", "9">>
IsDigit(c) == \E k \in 1..Len(DigitChars) : DigitChars[k] = c
DigitValue(c) == (CHOOSE k \in 1..Len(DigitChars) : DigitChars[k] = c) - 1

RECURSIVE SkipBlanks(_)
SkipBlanks(p) ==
    IF p # <<>> /\ Head(p) = " " THEN SkipBlanks(Tail(p)) ELSE p

\* The number read from the digits at the front of p, continuing from acc.
RECURSIVE ReadDigits(_, _)
ReadDigits(p, acc) ==
    IF p # <<>> /\ IsDigit(Head(p))
    THEN ReadDigits(Tail(p), 10 * acc + DigitValue(Head(p)))
    ELSE acc

\* Variant: Number(param), which is NaN unless the whole parameter is digits.
parseInt_WholeString(p) ==
    IF p # <<>> /\ \A k \in 1..Len(p) : IsDigit(p[k])
    THEN ReadDigits(p, 0)
    ELSE NaN

parseInt(p) ==
    LET q == SkipBlanks(p)
        neg == q # <<>> /\ Head(q) = "-"
        r == IF q # <<>> /\ Head(q) \in {"-", "+"} THEN Tail(q) ELSE q
    IN IF r # <<>> /\ IsDigit(Head(r))
       THEN (IF neg THEN -1 ELSE 1) * ReadDigits(r, 0)
       ELSE NaN

\* Variant: the callback assigns (task.id = id) instead of comparing, so the
\* first task always matches.
FindIndex_Assign(tasks, id) == IF Len(tasks) > 0 THEN 1 ELSE 0

\* tasks.findIndex(task => task.id === id), 1-based; 0 stands for -1.
FindIndex(tasks, id) ==
    IF \E i \in 1..Len(tasks) : StrictEq(tasks[i].id, id)
    THEN CHOOSE i \in 1..Len(tasks) :
            /\ StrictEq(tasks[i].id, id)
            /\ \A j \in 1..(i - 1) : ~StrictEq(tasks[j].id, id)
    ELSE 0

\* tasks.splice(i, 1)
Splice(tasks, i) ==
    [j \in 1..(Len(tasks) - 1) |-> IF j < i THEN tasks[j] ELSE tasks[j + 1]]

\* An error object as the error handler looks at it: err.type, err.name, err.code.
Err(type, name, code) == [type |-> type, name |-> name, code |-> code]
NoErr == Err("", "", "")

\* One entry of validationResult(req).array(): the field and the message.
Violation(path, msg) == [path |-> path, msg |-> msg]

NoReq ==
    [op |-> "none", id |-> 0, body |-> Body(Undefined, Undefined), err |-> NoErr,
     violations |-> <<>>, param |-> <<>>]
NoData == [base |-> DefaultDoc, doc |-> DefaultDoc, idx |-> 0]
NoResp == [status |-> 0, task |-> NoTask, tasks |-> <<>>, text |-> "", errors |-> <<>>]
NoIo == [loads |-> 0, saves |-> 0, nexts |-> 0]

\* res.status(status).json(body): body is a task, a task list, or a one-text object
\* ({error: text} or {message: text}).  No handler sends an {errors: [...]} body.
Respond(status, task, tasks, text) ==
    [status |-> status, task |-> task, tasks |-> tasks, text |-> text, errors |-> <<>>]

Init ==
    /\ file \in {NoFile, FileOf(DefaultDoc)}
    /\ pc = [s \in Slots |-> "idle"]
    /\ req = [s \in Slots |-> NoReq]
    /\ data = [s \in Slots |-> NoData]
    /\ resp = [s \in Slots |-> NoResp]
    /\ io = [s \in Slots |-> NoIo]
    /\ returned = {}
    /\ ledger = {}

(***************************************************************************)
(* The synchronous pieces of the handlers.                                *)
(***************************************************************************)
\* Variant: only the title is tested.
CreateBodyOk_TitleOnly(title, completed) == Truthy(title)

\* createTask's guard: if (!title || typeof completed !== "boolean") -> 400
CreateBodyOk(title, completed) ==
    ~(~Truthy(title) \/ TypeOf(completed) # "boolean")

\* Variant: the id is derived from the number of tasks instead of the counter.
NewTask_FromLength(d, title, completed) ==
    [id |-> Len(d.tasks) + 1, title |-> title, completed |-> completed]

\* const newTask = { id: data.nextId, title, completed }
NewTask(d, title, completed) ==
    [id |-> d.nextId, title |-> title, completed |-> completed]

\* Variant: the task is put at the front of the list (unshift).
PushTask_Front(d, t) ==
    [tasks |-> <<t>> \o d.tasks, nextId |-> d.nextId + 1]

\* Variant: the counter is not incremented.
PushTask_NoIncrement(d, t) == [tasks |-> Append(d.tasks, t), nextId |-> d.nextId]

\* data.tasks.push(newTask); data.nextId++
PushTask(d, t) == [tasks |-> Append(d.tasks, t), nextId |-> d.nextId + 1]

\* Variant: both fields are assigned whether present or not.
PatchTask_Overwrite(t, title, completed) ==
    [id |-> t.id, title |-> title, completed |-> completed]

\* if (title !== undefined) task.title = title;
\* if (completed !== undefined) task.completed = completed
PatchTask(t, title, completed) ==
    [id |-> t.id,
     title |-> IF title # Undefined THEN title ELSE t.title,
     completed |-> IF completed # Undefined THEN completed ELSE t.completed]

\* Variant: the patched task is taken out and pushed at the end.
PatchDoc_MoveToEnd(d, i, title, completed) ==
    [d EXCEPT !.tasks = Append(Splice(@, i), PatchTask(d.tasks[i], title, completed))]

\* The task at taskIndex is patched in place.
PatchDoc(d, i, title, completed) ==
    [d EXCEPT !.tasks[i] = PatchTask(@, title, completed)]

\* Variant: splice(taskIndex) without a count removes the tail from taskIndex on.
RemoveTask_Tail(d, i) == [d EXCEPT !.tasks = SubSeq(@, 1, i - 1)]

\* data.tasks.splice(taskIndex, 1)
RemoveTask(d, i) == [d EXCEPT !.tasks = Splice(@, i)]

(***************************************************************************)
(* The file's text.  JSON.stringify writes an object as its properties in *)
(* insertion order and leaves out a property whose value is undefined;    *)
(* JSON.parse rebuilds the object, and reading a property the text does   *)
(* not have gives undefined.  A file with a document is identified with   *)
(* the value its text parses to (FileOf).                                 *)
(***************************************************************************)
Defined(p) == p[2] # Undefined

\* Variant: a property is written only when its value is truthy.
JSONstringifyTask_DropFalsy(t) ==
    SelectSeq(<< <<"id", JNum(t.id)>>, <<"title", t.title>>,
                 <<"completed", t.completed>> >>, LAMBDA p : Truthy(p[2]))

JSONstringifyTask(t) ==
    SelectSeq(<< <<"id", JNum(t.id)>>, <<"title", t.title>>,
                 <<"completed", t.completed>> >>, Defined)

JSONstringify(d) ==
    [tasks |-> [i \in 1..Len(d.tasks) |-> JSONstringifyTask(d.tasks[i])],
     nextId |-> d.nextId]

\* obj[key] of a parsed object.
Prop(pairs, key) ==
    IF \E i \in 1..Len(pairs) : pairs[i][1] = key
    THEN pairs[CHOOSE i \in 1..Len(pairs) : pairs[i][1] = key][2]
    ELSE Undefined

JSONparseTask(pairs) ==
    [id |-> Prop(pairs, "id").num, title |-> Prop(pairs, "title"),
     completed |-> Prop(pairs, "completed")]

JSONparse(text) ==
    [tasks |-> [i \in 1..Len(text.tasks) |-> JSONparseTask(text.tasks[i])],
     nextId |-> text.nextId]

\* Variant: only the task list is written, the counter starts over.
writeData_TasksOnly(d) == FileOf([tasks |-> d.tasks, nextId |-> 1])

\* writeData: JSON.stringify(data) replaces the whole file.
writeData(d) == FileOf(JSONparse(JSONstringify(d)))

Free(s) == pc[s] \in {"idle", "done"}

\* A request enters its handler and reaches `await readData()`.
Enter(s, r) ==
    /\ pc' = [pc EXCEPT ![s] = "reading"]
    /\ req' = [req EXCEPT ![s] = r]
    /\ data' = [data EXCEPT ![s] = NoData]
    /\ resp' = [resp EXCEPT ![s] = NoResp]
    /\ io' = [io EXCEPT ![s] = NoIo]
    /\ UNCHANGED <<file, returned>>

\* The handler sends its response and returns.
Finish(s, r) ==
    /\ pc' = [pc EXCEPT ![s] = "done"]
    /\ resp' = [resp EXCEPT ![s] = r]
    /\ data' = [data EXCEPT ![s] = NoData]

\* Variant: the handler has no catch, the error leaves it without a response.
Failure_NoCatch(r) == NoResp

\* The catch block of a handler.
Failure(r) ==
    CASE r.op = "list" -> Respond(500, NoTask, <<>>, "Erreur lors de la récupération des tâches")
      [] r.op = "create" -> Respond(500, NoTask, <<>>, "Erreur lors de la création de la tâche")
      [] r.op = "update" -> Respond(500, NoTask, <<>>, "Erreur lors de la mise à jour")
      [] r.op = "delete" -> Respond(500, NoTask, <<>>, "Erreur lors de la suppression")

\* GET /api/tasks
getAllTasks(s) ==
    /\ Free(s)
    /\ Enter(s, [NoReq EXCEPT !.op = "list"])

\* Variant: the catch answers 200 with an empty list.
getAllTasksRead_Swallow(s) ==
    /\ pc[s] = "reading" /\ req[s].op = "list"
    /\ LET d == readData(file) IN
        Finish(s, Respond(200, NoTask, IF d = Null THEN <<>> ELSE d.tasks, ""))
    /\ io' = [io EXCEPT ![s].loads = @ + 1]
    /\ UNCHANGED <<file, req, returned>>

getAllTasksRead(s) ==
    /\ pc[s] = "reading" /\ req[s].op = "list"
    /\ LET d == readData(file) IN
        IF d = Null
        THEN Finish(s, Failure(req[s]))
        ELSE Finish(s, Respond(200, NoTask, d.tasks, ""))
    /\ io' = [io EXCEPT ![s].loads = @ + 1]
    /\ UNCHANGED <<file, req, returned>>

\* POST /api/tasks
createTaskStart(s, body) ==
    IF CreateBodyOk(body.title, body.completed)
    THEN Enter(s, [NoReq EXCEPT !.op = "create", !.body = body])
    ELSE /\ Finish(s, Respond(400, NoTask, <<>>, "Données invalides"))
         /\ req' = [req EXCEPT ![s] = [NoReq EXCEPT !.op = "create", !.body = body]]
         /\ io' = [io EXCEPT ![s] = NoIo]
         /\ UNCHANGED <<file, returned>>

createTask(s, body) ==
    /\ Free(s)
    /\ createTaskStart(s, body)

\* Variant: a numeric id of the body is taken as the task's id.
createTaskRead_ClientId(s) ==
    /\ pc[s] = "reading" /\ req[s].op = "create"
    /\ LET d == readData(file)
           n == NewTask(d, req[s].body.title, req[s].body.completed)
           t == IF req[s].body.id.type = "number"
                THEN [n EXCEPT !.id = req[s].body.id.num] ELSE n
       IN data' = [data EXCEPT ![s] =
                      [base |-> d, doc |-> PushTask(d, t), idx |-> Len(d.tasks) + 1]]
    /\ pc' = [pc EXCEPT ![s] = "writing"]
    /\ io' = [io EXCEPT ![s].loads = @ + 1]
    /\ UNCHANGED <<file, req, resp, returned>>

createTaskRead(s) ==
    /\ pc[s] = "reading" /\ req[s].op = "create"
    /\ LET d == readData(file) IN
        IF d = Null
        THEN Finish(s, Failure(req[s]))
        ELSE LET t == NewTask(d, req[s].body.title, req[s].body.completed)
             IN /\ data' = [data EXCEPT ![s] =
                      [base |-> d, doc |-> PushTask(d, t), idx |-> Len(d.tasks) + 1]]
                /\ pc' = [pc EXCEPT ![s] = "writing"]
                /\ UNCHANGED resp
    /\ io' = [io EXCEPT ![s].loads = @ + 1]
    /\ UNCHANGED <<file, req, returned>>

\* PUT /api/tasks/:id
updateTask(s, id, body) ==
    /\ Free(s)
    /\ Enter(s, [NoReq EXCEPT !.op = "update", !.id = id, !.body = body])

\* PUT /api/tasks/:id with the path parameter as the client wrote it.
updateTaskParam(s, p, body) ==
    /\ Free(s)
    /\ Enter(s, [NoReq EXCEPT !.op = "update", !.id = parseInt(p), !.param = p,
                              !.body = body])

updateTaskRead(s) ==
    /\ pc[s] = "reading" /\ req[s].op = "update"
    /\ LET d == readData(file) IN
        IF d = Null
        THEN Finish(s, Failure(req[s]))
        ELSE LET i == FindIndex(d.tasks, req[s].id) IN
             IF i = 0
             THEN Finish(s, Respond(404, NoTask, <<>>, "Tâche non trouvée"))
             ELSE /\ data' = [data EXCEPT ![s] =
                      [base |-> d,
                       doc |-> PatchDoc(d, i, req[s].body.title, req[s].body.completed),
                       idx |-> i]]
                  /\ pc' = [pc EXCEPT ![s] = "writing"]
                  /\ UNCHANGED resp
    /\ io' = [io EXCEPT ![s].loads = @ + 1]
    /\ UNCHANGED <<file, req, returned>>

\* DELETE /api/tasks/:id
deleteTask(s, id) ==
    /\ Free(s)
    /\ Enter(s, [NoReq EXCEPT !.op = "delete", !.id = id])

\* DELETE /api/tasks/:id with the path parameter as the client wrote it.
deleteTaskParam(s, p) ==
    /\ Free(s)
    /\ Enter(s, [NoReq EXCEPT !.op = "delete", !.id = parseInt(p), !.param = p])

deleteTaskRead(s) ==
    /\ pc[s] = "reading" /\ req[s].op = "delete"
    /\ LET d == readData(file) IN
        IF d = Null
        THEN Finish(s, Failure(req[s]))
        ELSE LET i == FindIndex(d.tasks, req[s].id) IN
             IF i = 0
             THEN Finish(s, Respond(404, NoTask, <<>>, "Tâche non trouvée"))
             ELSE /\ data' = [data EXCEPT ![s] =
                      [base |-> d, doc |-> RemoveTask(d, i), idx |-> i]]
                  /\ pc' = [pc EXCEPT ![s] = "writing"]
                  /\ UNCHANGED resp
    /\ io' = [io EXCEPT ![s].loads = @ + 1]
    /\ UNCHANGED <<file, req, returned>>

\* The response a mutating handler sends after `await writeData(data)`.
Success(r, d) ==
    CASE r.op = "create" -> Respond(201, d.doc.tasks[d.idx], <<>>, "")
      [] r.op = "update" -> Respond(200, d.doc.tasks[d.idx], <<>>, "")
      [] r.op = "delete" -> Respond(200, NoTask, <<>>, "Task deleted successfully")

\* The tasks a client knows of after one more success response: a 201 adds
\* its task, a 200 of an update replaces the task of that id, a 200 of a delete
\* drops the task of the request's id.
Noted(l, r, rsp) ==
    CASE r.op = "create" -> l \cup {rsp.task}
      [] r.op = "update" -> {t \in l : t.id # rsp.task.id} \cup {rsp.task}
      [] r.op = "delete" -> {t \in l : t.id # r.id}

\* Variant: a create pushes its task onto the document the file holds at the
\* time of the write instead of the one the handler loaded.
writeDataOk_Reload(s) ==
    /\ pc[s] = "writing"
    /\ file' = IF req[s].op = "create"
               THEN writeData(PushTask(readData(file), data[s].doc.tasks[data[s].idx]))
               ELSE writeData(data[s].doc)
    /\ Finish(s, Success(req[s], data[s]))
    /\ io' = [io EXCEPT ![s].saves = @ + 1]
    /\ returned' = IF req[s].op = "create"
                   THEN returned \cup {data[s].doc.tasks[data[s].idx].id}
                   ELSE returned
    /\ UNCHANGED req

\* writeData resolves: the file now holds the handler's data.
writeDataOk(s) ==
    /\ pc[s] = "writing"
    /\ file' = writeData(data[s].doc)
    /\ Finish(s, Success(req[s], data[s]))
    /\ io' = [io EXCEPT ![s].saves = @ + 1]
    /\ returned' = IF req[s].op = "create"
                   THEN returned \cup {data[s].doc.tasks[data[s].idx].id}
                   ELSE returned
    /\ UNCHANGED req

\* Variant: the file is replaced although the handler answers 500.
writeDataFails_Commits(s) ==
    /\ pc[s] = "writing"
    /\ file' = writeData(data[s].doc)
    /\ Finish(s, Failure(req[s]))
    /\ io' = [io EXCEPT ![s].saves = @ + 1]
    /\ UNCHANGED <<req, returned>>

\* Variant: after a first failed write the handler calls writeData again.
writeDataFails_Retry(s) ==
    /\ pc[s] = "writing"
    /\ IF io[s].saves = 0
       THEN UNCHANGED <<pc, resp, data>>
       ELSE Finish(s, Failure(req[s]))
    /\ io' = [io EXCEPT ![s].saves = @ + 1]
    /\ UNCHANGED <<file, req, returned>>

\* writeData throws: the handler's catch answers 500.  The storage module
\* documents its write as atomic, so the file keeps its content.
writeDataFails(s) ==
    /\ pc[s] = "writing"
    /\ Finish(s, Failure(req[s]))
    /\ io' = [io EXCEPT ![s].saves = @ + 1]
    /\ UNCHANGED <<file, req, returned>>

(***************************************************************************)
(* The boundary of the application (app.js): express.json() parses the    *)
(* body before the routes; when it fails it passes its error to next, the *)
(* routes are skipped and the error handler mounted last answers.         *)
(***************************************************************************)
\* Variant: every error is answered as a generic server error.
errorHandler_GenericOnly(err) == Respond(500, NoTask, <<>>, "Erreur interne du serveur")

errorHandler(err) ==
    IF err.type = "entity.parse.failed"
    THEN Respond(400, NoTask, <<>>, "JSON invalide")
    ELSE IF err.name = "ValidationError"
    THEN Respond(400, NoTask, <<>>, "Données de requête invalides")
    ELSE IF err.code = "SQLITE_CONSTRAINT" \/ err.code = "ER_DUP_ENTRY"
    THEN Respond(409, NoTask, <<>>, "Conflit de données")
    ELSE Respond(500, NoTask, <<>>, "Erreur interne du serveur")

\* What express.json() raises for a body that is not JSON.
ParseFailed == Err("entity.parse.failed", "SyntaxError", "")

\* A middleware ahead of the routes calls next(err): no task handler runs.
boundaryError(s, err) ==
    /\ Free(s)
    /\ Finish(s, errorHandler(err))
    /\ req' = [req EXCEPT ![s] = [NoReq EXCEPT !.op = "error", !.err = err]]
    /\ io' = [io EXCEPT ![s] = NoIo]
    /\ UNCHANGED <<file, returned>>

(***************************************************************************)
(* The validation middleware of server/middleware/validation.js, run the  *)
(* way its header documents it: router.post("/tasks", validateCreateTask,  *)
(* createTask).  The validators of express-validator leave their          *)
(* violations on the request; the last function of the array decides.     *)
(***************************************************************************)
\* Variant: only the first violation is sent.
handleValidationErrors_FirstOnly(errors) ==
    IF errors # <<>>
    THEN [resp |-> [Respond(400, NoTask, <<>>, "") EXCEPT !.errors = <<errors[1]>>],
          nexts |-> 0]
    ELSE [resp |-> NoResp, nexts |-> 1]

\* (req, res, next) => { const errors = validationResult(req); ... }:
\* the response sent (NoResp: none) and the number of calls of next.
handleValidationErrors(errors) ==
    IF errors # <<>>
    THEN [resp |-> [Respond(400, NoTask, <<>>, "") EXCEPT !.errors = errors],
          nexts |-> 0]
    ELSE [resp |-> NoResp, nexts |-> 1]

\* POST /api/tasks through the middleware: the validators have left `errors`
\* on the request; on next() the slot waits for createTask ("next").
validateCreateTask(s, body, errors) ==
    /\ Free(s)
    /\ LET out == handleValidationErrors(errors) IN
          /\ pc' = [pc EXCEPT ![s] = IF out.nexts = 0 THEN "done" ELSE "next"]
          /\ resp' = [resp EXCEPT ![s] = out.resp]
          /\ io' = [io EXCEPT ![s] = [NoIo EXCEPT !.nexts = out.nexts]]
    /\ req' = [req EXCEPT ![s] =
                  [NoReq EXCEPT !.op = "create", !.body = body, !.violations = errors]]
    /\ data' = [data EXCEPT ![s] = NoData]
    /\ UNCHANGED <<file, returned>>

\* next(): createTask runs on the request the middleware passed on.
createTaskNext(s) ==
    /\ pc[s] = "next"
    /\ createTaskStart(s, req[s].body)

\* The id counter on file is below the limit (a file without a counter is).
CounterBelow(limit) ==
    LET d == readData(file) IN IF d = Null THEN TRUE ELSE d.nextId < limit

\* One step of the request in slot s, its body drawn from the given sets.
\* A create is taken up while the id counter on file is below the limit.
Step(s, createBodies, updateBodies, limit) ==
    \/ getAllTasks(s)
    \/ \E b \in createBodies :
          /\ CreateBodyOk(b.title, b.completed) => CounterBelow(limit)
          /\ createTask(s, b)
    \/ \E id \in IdParams, b \in updateBodies : updateTask(s, id, b)
    \/ \E id \in IdParams : deleteTask(s, id)
    \/ getAllTasksRead(s)
    \/ CounterBelow(limit) /\ createTaskRead(s)
    \/ updateTaskRead(s)
    \/ deleteTaskRead(s)
    \/ writeDataOk(s)
    \/ writeDataFails(s)

\* The client of slot s notes what a success response of a mutation tells it.
Note(s) ==
    ledger' = IF pc[s] = "writing" /\ resp'[s].status \in {200, 201}
              THEN Noted(ledger, req[s], resp'[s])
              ELSE ledger

\* Requests handled one at a time: a single slot, the next request enters
\* after the previous one was answered.
Next == Step("r1", CreateBodies, UpdateBodies, MaxNextId) /\ Note("r1")

Spec == Init /\ [][Next]_vars

\* Two requests in flight: the steps of the two slots interleave at the awaits.
ConcCreateBodies == { Body(JStr("a", 1), JBool(FALSE)) }
ConcUpdateBodies == { Body(Undefined, JBool(TRUE)), Body(JStr("a", MaxTitleLen), Undefined) }

NextC ==
    /\ \E s \in Slots : Step(s, ConcCreateBodies, ConcUpdateBodies, MaxNextIdC)
    /\ UNCHANGED ledger

SpecC == Init /\ [][NextC]_vars

\* Requests handled one at a time whose bodies carry more than the handlers
\* read: an id property, a completed that is a number or a string, a title
\* made of spaces only.
BodyIds == { Undefined, JNum(2) }
CreateBodiesB ==
    { BodyWithId(i, t, c) :
        i \in BodyIds, t \in {JStr("a", 0), JStr("a", 1), JStr(" ", 2)},
        c \in {Undefined, JBool(FALSE), JStr("a", 1), JNum(1), JNum(0)} }
UpdateBodiesB ==
    { BodyWithId(JNum(2), JStr("b", 1), Undefined),
      BodyWithId(JNum(1), Undefined, JBool(TRUE)),
      Body(JStr("b", 1), JBool(TRUE)) }

NextB ==
    /\ Step("r1", CreateBodiesB, UpdateBodiesB, MaxNextId)
    /\ UNCHANGED ledger

SpecB == Init /\ [][NextB]_vars

\* Two requests in flight, creates and deletes only, the id counter running up
\* to MaxNextId: a delete can load before a create saves and save after it.
CreateBodiesD ==
    { Body(JStr("a", 1), JBool(FALSE)), Body(JStr("b", 1), JBool(FALSE)) }

NextD ==
    /\ \E s \in Slots :
          \/ \E b \in CreateBodiesD :
                CounterBelow(MaxNextId) /\ createTask(s, b)
          \/ \E id \in IdParams : deleteTask(s, id)
          \/ CounterBelow(MaxNextId) /\ createTaskRead(s)
          \/ deleteTaskRead(s)
          \/ writeDataOk(s)
          \/ writeDataFails(s)
    /\ UNCHANGED ledger

SpecD == Init /\ [][NextD]_vars

\* Requests handled one at a time, some of which end at the boundary: a body
\* that is not JSON, a body over the size limit, and errors of the names and
\* codes the error handler tells apart.
Errors ==
    { ParseFailed,
      Err("entity.too.large", "PayloadTooLargeError", ""),
      Err("", "ValidationError", ""),
      Err("", "ValidationError", "SQLITE_CONSTRAINT"),
      Err("", "Error", "SQLITE_CONSTRAINT"),
      Err("", "Error", "ER_DUP_ENTRY"),
      Err("", "Error", "") }

NextE ==
    /\ \/ Step("r1", ConcCreateBodies, ConcUpdateBodies, MaxNextId)
       \/ \E err \in Errors : boundaryError("r1", err)
    /\ UNCHANGED ledger

SpecE == Init /\ [][NextE]_vars

\* Requests handled one at a time with the create route behind the validation
\* middleware.  The validators' verdict is drawn freely: no violation, one for
\* either field, or one for each.
TitleRequired == Violation("title", "Le titre est requis")
CompletedBoolean == Violation("completed", "completed doit être un booléen")
ErrorLists ==
    { <<>>, <<TitleRequired>>, <<CompletedBoolean>>,
      <<TitleRequired, CompletedBoolean>> }
CreateBodiesV ==
    { Body(JStr("a", 1), JBool(FALSE)), Body(JStr("a", 0), JStr("a", 1)) }

NextV ==
    /\ \/ \E b \in CreateBodiesV, e \in ErrorLists :
             /\ e = <<>> => CounterBelow(MaxNextId)
             /\ validateCreateTask("r1", b, e)
       \/ createTaskNext("r1")
       \/ CounterBelow(MaxNextId) /\ createTaskRead("r1")
       \/ getAllTasks("r1")
       \/ getAllTasksRead("r1")
       \/ \E id \in IdParams : deleteTask("r1", id)
       \/ deleteTaskRead("r1")
       \/ writeDataOk("r1")
       \/ writeDataFails("r1")
    /\ UNCHANGED ledger

SpecV == Init /\ [][NextV]_vars

\* Requests handled one at a time whose path parameters are arbitrary text:
\* no digit at all, digits followed by letters, a sign, a leading blank, a
\* decimal point.
PathParams ==
    { <<"a", "b", "c">>, <<"1", "a", "b", "c">>, <<"1">>, <<"2">>,
      <<"-", "1">>, <<" ", "2">>, <<"1", ".", "5">> }

NextP ==
    /\ \/ \E b \in ConcCreateBodies : CounterBelow(MaxNextId) /\ createTask("r1", b)
       \/ CounterBelow(MaxNextId) /\ createTaskRead("r1")
       \/ \E p \in PathParams :
             updateTaskParam("r1", p, Body(Undefined, JBool(TRUE)))
       \/ updateTaskRead("r1")
       \/ \E p \in PathParams : deleteTaskParam("r1", p)
       \/ deleteTaskRead("r1")
       \/ writeDataOk("r1")
       \/ writeDataFails("r1")
    /\ UNCHANGED ledger

SpecP == Init /\ [][NextP]_vars

\* Requests handled one at a time over every kind of file content: no readable
\* file, a document, or a text that parses to something that is no document.
InitF ==
    /\ file \in {NoFile, FileOf(DefaultDoc), NullFile}
    /\ pc = [s \in Slots |-> "idle"]
    /\ req = [s \in Slots |-> NoReq]
    /\ data = [s \in Slots |-> NoData]
    /\ resp = [s \in Slots |-> NoResp]
    /\ io = [s \in Slots |-> NoIo]
    /\ returned = {}
    /\ ledger = {}

NextF ==
    /\ Step("r1", CreateBodiesB, UpdateBodiesB, MaxNextId)
    /\ UNCHANGED ledger

SpecF == InitF /\ [][NextF]_vars

(***************************************************************************)
(* Properties.                                                             *)
(***************************************************************************)
\* The step in which slot s gets its response.
Answered(s) == pc[s] # "done" /\ pc'[s] = "done"
\* The step in which the save of slot s succeeds.
Saved(s, op) ==
    /\ pc[s] = "writing" /\ pc'[s] = "done" /\ req[s].op = op
    /\ resp'[s].status \in {200, 201}

Ids(tasks) == {tasks[i].id : i \in 1..Len(tasks)}
OnFile == readData(file).tasks
OnFileNext == readData(file').tasks

\* C1: with requests handled one at a time, the id in every 201 response is
\* greater than every id returned in an earlier 201 response (so no id is
\* returned twice), deletes in between included.
C1_IdsStrictlyIncreasing ==
    [][\A s \in Slots :
          Saved(s, "create") =>
             /\ resp'[s].status = 201
             /\ \A k \in returned : k < resp'[s].task.id]_vars

\* Two creates succeeded with a delete of the first task between them.
C1_Witness ==
    /\ returned = {1, 2}
    /\ Ids(OnFile) = {2}
    /\ pc["r1"] = "done" /\ req["r1"].op = "create" /\ resp["r1"].status = 201
    /\ resp["r1"].task.id = 2

\* C2: every task of a persisted document has id < nextId.
C2_IdsBelowNextId ==
    file.present =>
        \A i \in 1..Len(file.doc.tasks) : file.doc.tasks[i].id < file.doc.nextId

C2_Witness ==
    /\ file.present
    /\ Len(file.doc.tasks) = 2
    /\ file.doc.nextId = 3

\* C3: no two entries of a persisted document's tasks have the same id.
C3_IdsDistinct ==
    file.present =>
        \A i, j \in 1..Len(file.doc.tasks) :
            file.doc.tasks[i].id = file.doc.tasks[j].id => i = j

\* Two tasks on file, one of them just rewritten by an update.
C3_Witness ==
    /\ file.present
    /\ Ids(file.doc.tasks) = {1, 2}
    /\ pc["r1"] = "done" /\ req["r1"].op = "update" /\ resp["r1"].status = 200

\* C4: a successful update overwrites exactly the fields present in the body
\* (an absent title keeps the stored title, an absent completed keeps the stored
\* completed), keeps the id, and answers 200 with the task as stored.
C4_PartialUpdate ==
    [][\A s \in Slots :
          Saved(s, "update") =>
             /\ Len(OnFileNext) = Len(OnFile)
             /\ \A i \in 1..Len(OnFile) :
                   OnFile[i].id = req[s].id =>
                      /\ OnFileNext[i].id = OnFile[i].id
                      /\ OnFileNext[i].title =
                            (IF req[s].body.title = Undefined
                             THEN OnFile[i].title ELSE req[s].body.title)
                      /\ OnFileNext[i].completed =
                            (IF req[s].body.completed = Undefined
                             THEN OnFile[i].completed ELSE req[s].body.completed)
                      /\ resp'[s].status = 200
                      /\ resp'[s].task = OnFileNext[i]]_vars

\* An update that carries only completed, on a task whose title is not the
\* title any update carries.
C4_Witness ==
    /\ pc["r1"] = "done" /\ req["r1"].op = "update" /\ resp["r1"].status = 200
    /\ req["r1"].body.title = Undefined /\ req["r1"].body.completed = JBool(TRUE)
    /\ resp["r1"].task.title = JStr("a", MaxTitleLen + 1)
    /\ resp["r1"].task.completed = JBool(TRUE)

\* C5: a successful delete of id k leaves the persisted tasks equal to the
\* tasks before without the entry of id k, the others unchanged and in their
\* order, exactly one entry fewer, and nextId as it was.
WithoutId(tasks, k) == SelectSeq(tasks, LAMBDA t : t.id # k)

C6_NotFound ==
    [][\A s \in Slots :
          (/\ pc[s] = "reading" /\ req[s].op \in {"update", "delete"}
           /\ pc'[s] # "reading"
           /\ req[s].id \notin Ids(OnFile)) =>
             /\ pc'[s] = "done"
             /\ resp'[s].status = 404
             /\ resp'[s].text = "Tâche non trouvée"
             /\ io'[s].saves = 0
             /\ file' = file]_vars

\* An update answered 404 although the document has tasks.
C6_Witness ==
    /\ pc["r1"] = "done" /\ req["r1"].op = "update" /\ resp["r1"].status = 404
    /\ Len(OnFile) = 2
    /\ io["r1"].saves = 0

\* What one request does to a document, stated on its own: a create appends
\* the task with the counter as id and advances the counter, an update rewrites
\* the present fields of the matching task, a delete drops the matching task.
Applied(r, d) ==
    CASE r.op = "create" ->
            [tasks |-> Append(d.tasks, [id |-> d.nextId, title |-> r.body.title,
                                        completed |-> r.body.completed]),
             nextId |-> d.nextId + 1]
      [] r.op = "update" ->
            [tasks |-> [i \in 1..Len(d.tasks) |->
                          IF d.tasks[i].id = r.id
                          THEN [id |-> r.id,
                                title |-> IF r.body.title = Undefined
                                          THEN d.tasks[i].title ELSE r.body.title,
                                completed |-> IF r.body.completed = Undefined
                                              THEN d.tasks[i].completed ELSE r.body.completed]
                          ELSE d.tasks[i]],
             nextId |-> d.nextId]
      [] r.op = "delete" ->
            [tasks |-> WithoutId(d.tasks, r.id), nextId |-> d.nextId]

\* C7: with two requests in flight, a successful save leaves on file the
\* saving request's mutation of the document that request loaded, whatever the
\* file held just before: a mutation another request saved after that load is
\* not in the file any more, although that request was answered with success.
C7_LastSaveWins ==
    [][\A s \in Slots :
          (pc[s] = "writing" /\ pc'[s] = "done" /\ resp'[s].status \in {200, 201}) =>
             file' = FileOf(Applied(req[s], data[s].base))]_vars

\* Two updates of task 1 were both answered 200, one with completed set and
\* the old title, the other with the new title and completed still unset; the
\* file holds only the second one's change.
C7_Witness ==
    /\ pc["r1"] = "done" /\ req["r1"].op = "update" /\ resp["r1"].status = 200
    /\ pc["r2"] = "done" /\ req["r2"].op = "update" /\ resp["r2"].status = 200
    /\ resp["r1"].task = [id |-> 1, title |-> JStr("a", 1), completed |-> JBool(TRUE)]
    /\ resp["r2"].task =
          [id |-> 1, title |-> JStr("a", MaxTitleLen), completed |-> JBool(FALSE)]
    /\ file = FileOf([tasks |-> <<resp["r2"].task>>, nextId |-> 2])

\* The documented rule for a title: a string of 1 to MaxTitleLen characters.
TitleOk(v) == v.type = "string" /\ v.len >= 1 /\ v.len <= MaxTitleLen

\* C8: a create with a boolean completed is answered 400 when the title has
\* length 0 or 201 and is accepted (201) when it has length 1 or 200.
C8_TitleBoundaries ==
    \A s \in Slots :
        (/\ pc[s] = "done" /\ req[s].op = "create"
         /\ req[s].body.title.type = "string" /\ req[s].body.completed.type = "boolean"
         /\ resp[s].status # 500) =>
            /\ req[s].body.title.len \in {0, MaxTitleLen + 1} => resp[s].status = 400
            /\ req[s].body.title.len \in {1, MaxTitleLen} => resp[s].status = 201

\* C9: every title of a persisted document is a non-empty string of at most
\* MaxTitleLen characters.
C9_TitlesValid ==
    \A i \in 1..Len(OnFile) : TitleOk(OnFile[i].title)

\* A present field the documented rules forbid.
InvalidPatch(r) ==
    \/ r.body.title # Undefined /\ ~TitleOk(r.body.title)
    \/ r.body.completed # Undefined /\ r.body.completed.type # "boolean"

\* C10: an update whose body has a present but invalid field is answered 400
\* and leaves the file unchanged (stated for the requests whose id matches a
\* task; for the others the handler answers 404).
C10_UpdateRejectsInvalid ==
    [][\A s \in Slots :
          (/\ req[s].op = "update" /\ InvalidPatch(req[s])
           /\ req[s].id \in Ids(OnFile)
           /\ Answered(s) /\ resp'[s].status # 500) =>
             /\ resp'[s].status = 400
             /\ file' = file]_vars

\* A create body the handler's guard is documented to refuse: completed is
\* absent, a string or a number, or the title is the empty string.
Refused(body) ==
    \/ body.completed.type # "boolean"
    \/ body.title = JStr("a", 0)

\* C11: a create whose completed is not a boolean or whose title is empty is
\* answered 400 in the step that takes it up: nothing is loaded, nothing is
\* saved, and the file (its nextId included) is as before.
C11_CreateRefused ==
    [][\A s \in Slots :
          (req'[s].op = "create" /\ Refused(req'[s].body)) =>
             /\ pc'[s] = "done" /\ resp'[s].status = 400
             /\ io'[s] = NoIo
             /\ file' = file]_vars

\* After one task was created, a create with a titled body whose completed is
\* the number 1 was answered 400; the file still holds one task and nextId 2.
C11_Witness ==
    /\ pc["r1"] = "done" /\ req["r1"].op = "create"
    /\ req["r1"].body.title = JStr("a", 1) /\ req["r1"].body.completed = JNum(1)
    /\ resp["r1"].status = 400 /\ io["r1"].saves = 0
    /\ file.present /\ file.doc.nextId = 2 /\ Len(file.doc.tasks) = 1

\* C12: a create that succeeds on the loaded document d answers 201 with the
\* task {id: d.nextId, title, completed} of the request, and the file then
\* holds exactly d with that task appended at the end and nextId one higher.
C12_CreateAppends ==
    [][\A s \in Slots :
          Saved(s, "create") =>
             LET d == data[s].base
                 t == [id |-> d.nextId, title |-> req[s].body.title,
                       completed |-> req[s].body.completed]
             IN /\ resp'[s].status = 201 /\ resp'[s].task = t
                /\ file' = FileOf([tasks |-> Append(d.tasks, t),
                                   nextId |-> d.nextId + 1])]_vars

\* A second create succeeded: id 2 was answered, the file holds the tasks 1, 2
\* in that order and nextId 3.
C12_Witness ==
    /\ pc["r1"] = "done" /\ req["r1"].op = "create" /\ resp["r1"].status = 201
    /\ resp["r1"].task.id = 2
    /\ file.present /\ file.doc.nextId = 3 /\ Len(file.doc.tasks) = 2
    /\ file.doc.tasks[1].id = 1 /\ file.doc.tasks[2] = resp["r1"].task

NextIdOnFile == readData(file).nextId
NextIdOnFileNext == readData(file').nextId

\* C13: from one persisted document to the next nextId never decreases, and it
\* is always greater than every id a successful create has returned so far.
C13_NextIdMonotonic ==
    [][/\ NextIdOnFileNext >= NextIdOnFile
       /\ \A k \in returned' : k < NextIdOnFileNext]_vars

\* The request in slot s saves over the very document it loaded: no other
\* request has saved since its load.
Fresh(s) == data[s].base = readData(file)

\* C13, amended: a save by a request whose loaded document is still the
\* persisted one does not lower nextId and, when nextId was above every
\* returned id before the save, leaves it above every returned id.  (A request
\* that loaded before another request's save can write a lower nextId back.)
C13_FreshSaveKeepsNextId ==
    [][\A s \in Slots :
          (pc[s] = "writing" /\ pc'[s] = "done" /\ Fresh(s)) =>
             /\ NextIdOnFileNext >= NextIdOnFile
             /\ (\A k \in returned : k < NextIdOnFile) =>
                   (\A k \in returned' : k < NextIdOnFileNext)]_vars

\* The create in r1 has saved over the document it loaded (ids 1 and 2 are
\* returned, nextId is 3) while the delete in r2 still holds the document it
\* loaded before, with nextId 2, and is about to save.
C13_Witness ==
    /\ pc["r1"] = "done" /\ req["r1"].op = "create" /\ resp["r1"].status = 201
    /\ returned = {1, 2} /\ NextIdOnFile = 3
    /\ pc["r2"] = "writing" /\ req["r2"].op = "delete"
    /\ data["r2"].doc.nextId = 2

\* The save of the mutation in slot s fails in this step.
SaveFails(s) ==
    /\ pc[s] = "writing" /\ pc'[s] = "done"
    /\ resp'[s].status \notin {200, 201}

Range(seq) == {seq[i] : i \in 1..Len(seq)}

\* C15: with requests handled one at a time, a list answers exactly the tasks
\* the earlier success responses describe: a task is listed iff a 201 returned
\* it and no later delete of its id was answered 200, with the title and
\* completed of its 201 and of the later 200 responses of updates of its id.
C15_ListReflectsMutations ==
    \A s \in Slots :
        (pc[s] = "done" /\ req[s].op = "list") =>
            /\ resp[s].status = 200
            /\ Range(resp[s].tasks) = ledger
            /\ Len(resp[s].tasks) = Cardinality(ledger)

\* Task 1 was created and later deleted; the list that follows is empty.
C15_Witness ==
    /\ pc["r1"] = "done" /\ req["r1"].op = "list" /\ resp["r1"].status = 200
    /\ resp["r1"].tasks = <<>>
    /\ returned = {1} /\ NextIdOnFile = 2

\* C16: while the file is missing, unreadable or unparsable, the load of a
\* handler gives the default document and no error: a list answers 200 with
\* [], a create goes on with id 1 and answers 201 with id 1 when its save
\* succeeds; no handler answers 500 from its load.
C16_DefaultDocument ==
    [][\A s \in Slots :
          (~file.present /\ pc[s] \in {"reading", "writing"} /\ pc'[s] # pc[s]) =>
             /\ (pc[s] = "reading" /\ req[s].op = "list") =>
                   (resp'[s].status = 200 /\ resp'[s].tasks = <<>>)
             /\ (pc[s] = "reading" /\ req[s].op = "create") =>
                   /\ pc'[s] = "writing"
                   /\ data'[s].base = [tasks |-> <<>>, nextId |-> 1]
                   /\ data'[s].doc.tasks[1].id = 1
             /\ pc[s] = "reading" => resp'[s].status # 500
             /\ Saved(s, "create") =>
                   (resp'[s].status = 201 /\ resp'[s].task.id = 1)]_vars

\* With no readable file, a list was answered 200 with the empty list after
\* one load.
C16_Witness ==
    /\ ~file.present
    /\ pc["r1"] = "done" /\ req["r1"].op = "list"
    /\ resp["r1"].status = 200 /\ resp["r1"].tasks = <<>> /\ io["r1"].loads = 1

IdsInOrder(tasks) == [i \in 1..Len(tasks) |-> tasks[i].id]

\* C18: whatever the body holds (an id property included), a create gives the
\* new task the nextId of the loaded document and leaves the tasks already
\* there as they are; an update keeps every id at its position, leaves every
\* task but the matched one as it is, and the matched one keeps its id.
C18_IdFromCounterOnly ==
    [][\A s \in Slots :
          /\ Saved(s, "create") =>
                /\ resp'[s].task.id = data[s].base.nextId
                /\ IdsInOrder(OnFileNext) =
                      Append(IdsInOrder(data[s].base.tasks), data[s].base.nextId)
                /\ SubSeq(OnFileNext, 1, Len(OnFileNext) - 1) = data[s].base.tasks
          /\ Saved(s, "update") =>
                /\ IdsInOrder(OnFileNext) = IdsInOrder(data[s].base.tasks)
                /\ resp'[s].task.id = req[s].id
                /\ \A i \in 1..Len(OnFileNext) :
                      OnFileNext[i].id # req[s].id =>
                         OnFileNext[i] = data[s].base.tasks[i]]_vars

\* A create whose body carried id 2 was answered 201 with id 1.
C18_Witness ==
    /\ pc["r1"] = "done" /\ req["r1"].op = "create" /\ resp["r1"].status = 201
    /\ req["r1"].body.id = JNum(2)
    /\ resp["r1"].task.id = 1 /\ IdsInOrder(OnFile) = <<1>>

ViolationsFor(errors, field) == {i \in 1..Len(errors) : errors[i].path = field}

\* C20: a create with an empty title and a completed that is not a boolean is
\* answered 400 with a body that lists one violation for title and one for
\* completed.
C20_BothViolationsListed ==
    \A s \in Slots :
        (/\ pc[s] = "done" /\ req[s].op = "create"
         /\ req[s].body.title = JStr("a", 0)
         /\ req[s].body.completed.type # "boolean") =>
            /\ resp[s].status = 400
            /\ Cardinality(ViolationsFor(resp[s].errors, "title")) = 1
            /\ Cardinality(ViolationsFor(resp[s].errors, "completed")) = 1

\* The statuses the claim allows each kind of request.
Statuses(op) ==
    CASE op = "list" -> {200, 500}
      [] op = "create" -> {201, 400, 500}
      [] op = "update" -> {200, 400, 404, 500}
      [] op = "delete" -> {200, 404, 500}
      [] OTHER -> {}

\* C21: every request ends with exactly one response and no uncaught error.
\* While a handler is at an await no response is sent yet and a step that
\* takes it on exists; when it has returned, one response with a status of
\* its kind is sent, and that response stays until the slot takes up another
\* request.  This holds for every body, every file content and both outcomes
\* of the write.
C21_ExactlyOneResponse ==
    /\ [](\A s \in Slots :
            /\ pc[s] = "reading" =>
                  ENABLED (getAllTasksRead(s) \/ createTaskRead(s)
                             \/ updateTaskRead(s) \/ deleteTaskRead(s))
            /\ pc[s] = "writing" => ENABLED (writeDataOk(s) \/ writeDataFails(s))
            /\ pc[s] \in {"reading", "writing"} => resp[s].status = 0
            /\ pc[s] = "done" => resp[s].status \in Statuses(req[s].op))
    /\ [][\A s \in Slots :
            /\ pc[s] \in {"reading", "writing"} =>
                  (pc'[s] \in {"writing", "done"} \/ pc'[s] = pc[s])
            /\ (resp[s].status # 0 /\ resp'[s] # resp[s]) => pc[s] = "done"]_vars

\* The file holds the text `null`: an update was answered 500 after its load,
\* without a save.
C21_Witness ==
    /\ file = NullFile
    /\ pc["r1"] = "done" /\ req["r1"].op = "update"
    /\ resp["r1"].status = 500 /\ io["r1"].loads = 1 /\ io["r1"].saves = 0

C23_OneLoadOneSave ==
    \A s \in Slots :
        /\ io[s].loads <= 1 /\ io[s].saves <= 1
        /\ (pc[s] = "done" /\ resp[s].status \in {200, 201}) =>
              /\ io[s].loads = 1
              /\ io[s].saves = IF req[s].op = "list" THEN 0 ELSE 1
        /\ (pc[s] = "done" /\ resp[s].status = 500) =>
              /\ io[s].loads = 1
              /\ io[s].saves = IF readData(file) = Null THEN 0 ELSE 1

\* An update was answered 200 after one load and one save.
C23_Witness ==
    /\ pc["r1"] = "done" /\ req["r1"].op = "update" /\ resp["r1"].status = 200
    /\ io["r1"].loads = 1 /\ io["r1"].saves = 1

\* String.prototype.trim on a title: a string of spaces becomes empty.
Trim(v) == IF v.type = "string" /\ v.ch = " " THEN JStr(" ", 0) ELSE v

\* C24: a create whose title is empty after trimming, or longer than
\* MaxTitleLen after trimming, is answered 400 and stores no task.
C24_TrimmedTitleRequired ==
    [][\A s \in Slots :
          (/\ req'[s].op = "create" /\ req'[s].body.title.type = "string"
           /\ Trim(req'[s].body.title).len \notin 1..MaxTitleLen) =>
             /\ pc'[s] = "done" /\ resp'[s].status = 400
             /\ file' = file]_vars

\* C25: a list whose load or use of the loaded value throws is answered 500
\* with the text "Erreur lors de la récupération des tâches" and no task
\* list.  With readData as it is, which answers the default document for
\* every read failure, that happens only when the file parses to a value
\* that is no object with a tasks field; a missing or unreadable file gives
\* 200 with the empty list.
C25_ListFailure ==
    [][\A s \in Slots :
          (pc[s] = "reading" /\ req[s].op = "list" /\ pc'[s] = "done") =>
             /\ resp'[s].status \in {200, 500}
             /\ resp'[s].status = 500 =>
                   /\ readData(file) = Null
                   /\ resp'[s].text = "Erreur lors de la récupération des tâches"
                   /\ resp'[s].tasks = <<>>
             /\ readData(file) = Null => resp'[s].status = 500
             /\ ~file.present =>
                   (resp'[s].status = 200 /\ resp'[s].tasks = <<>>)
             /\ file' = file]_vars

\* The file holds the text `null` and a list was answered 500.
C25_Witness ==
    /\ file = NullFile
    /\ pc["r1"] = "done" /\ req["r1"].op = "list"
    /\ resp["r1"].status = 500 /\ resp["r1"].tasks = <<>>
    /\ resp["r1"].text = "Erreur lors de la récupération des tâches"

\* C26: the last function of the validation middleware either sends 400 with
\* the collected violations, all of them and in their order, and does not
\* call next, or, when there is no violation, calls next once and sends
\* nothing; it leaves the request body and the file as they are.
C26_ValidateOrNext ==
    [][\A s \in Slots : \A b \in CreateBodiesV, e \in ErrorLists :
          validateCreateTask(s, b, e) =>
             /\ e # <<>> =>
                   /\ pc'[s] = "done" /\ io'[s].nexts = 0
                   /\ resp'[s].status = 400 /\ resp'[s].errors = e
             /\ e = <<>> =>
                   /\ pc'[s] = "next" /\ io'[s].nexts = 1
                   /\ resp'[s] = NoResp
             /\ req'[s].body = b
             /\ io'[s].loads = 0 /\ io'[s].saves = 0
             /\ file' = file]_vars

\* With one task on file, a create with an empty title and a string for
\* completed was answered 400 with both violations; next was not called.
C26_Witness ==
    /\ pc["r1"] = "done" /\ req["r1"].op = "create"
    /\ req["r1"].violations = <<TitleRequired, CompletedBoolean>>
    /\ resp["r1"].status = 400
    /\ resp["r1"].errors = <<TitleRequired, CompletedBoolean>>
    /\ io["r1"].nexts = 0 /\ Ids(OnFile) = {1}

\* The ids whose delete was answered 200: returned by a 201 once and no
\* longer among the tasks the success responses describe.
Deleted == returned \ {t.id : t \in ledger}

\* C27: with requests handled one at a time, once the delete of id k has
\* succeeded every later update or delete of id k is answered 404 and writes
\* nothing, whatever was created, updated or deleted in between, and no
\* later create is given id k.
C27_DeletedStaysDeleted ==
    [][\A s \in Slots :
          /\ (/\ pc[s] = "reading" /\ req[s].op \in {"update", "delete"}
              /\ req[s].id \in Deleted /\ pc'[s] # pc[s]) =>
                /\ pc'[s] = "done" /\ resp'[s].status = 404
                /\ file' = file
          /\ Saved(s, "create") => resp'[s].task.id \notin Deleted]_vars

\* Task 1 was deleted and task 2 created; a further delete of id 1 was
\* answered 404.
C27_Witness ==
    /\ pc["r1"] = "done" /\ req["r1"].op = "delete" /\ req["r1"].id = 1
    /\ resp["r1"].status = 404
    /\ Deleted = {1} /\ Ids(OnFile) = {2}

\* The ids of a document are pairwise distinct and lie between 1 and nextId - 1.
WellFormed(d) ==
    /\ \A i, j \in 1..Len(d.tasks) : i # j => d.tasks[i].id # d.tasks[j].id
    /\ \A i \in 1..Len(d.tasks) : d.tasks[i].id \in 1..(d.nextId - 1)

BothCreatesLoaded(s, t) ==
    /\ s # t
    /\ pc[s] = "writing" /\ req[s].op = "create"
    /\ pc[t] = "writing" /\ req[t].op = "create"
    /\ data[s].base = data[t].base

\* C29: when two creates have both loaded the document before either saves,
\* the one that saves first is answered 201 with the id the other is going
\* to return, and the one that saves last is answered 201 with
\* that same id and leaves on file the document it loaded plus its own task:
\* the first one's task is not on file any more.
C29_ConcurrentCreatesSameId ==
    [][\A s, t \in Slots :
          /\ (BothCreatesLoaded(s, t) /\ Saved(s, "create")) =>
                /\ resp'[s].status = 201
                /\ resp'[s].task.id = data[t].doc.tasks[data[t].idx].id
                /\ resp'[s].task.id \in returned'
          /\ (/\ s # t /\ pc[s] = "done" /\ req[s].op = "create"
              /\ resp[s].status = 201
              /\ pc[t] = "writing" /\ req[t].op = "create"
              /\ resp[s].task.id = data[t].base.nextId
              /\ Saved(t, "create")) =>
                /\ resp'[t].status = 201
                /\ resp'[t].task.id = resp[s].task.id
                /\ OnFileNext = Append(data[t].base.tasks, resp'[t].task)
                /\ resp[s].task # resp'[t].task =>
                      resp[s].task \notin Range(OnFileNext)]_vars

\* Both creates were answered 201 with id 1, one for title "a" and one for
\* title "b"; the file holds only the task titled "b".
C29_Witness ==
    /\ \A s \in Slots :
          pc[s] = "done" /\ req[s].op = "create" /\ resp[s].status = 201
    /\ resp["r1"].task = [id |-> 1, title |-> JStr("a", 1), completed |-> JBool(FALSE)]
    /\ resp["r2"].task = [id |-> 1, title |-> JStr("b", 1), completed |-> JBool(FALSE)]
    /\ OnFile = <<resp["r2"].task>> /\ returned = {1}
(***************************************************************************)
(* C30.  An Update or Delete whose id path parameter has no leading digit  *)
(* carries the id NaN, matches no task, is answered 404 and saves nothing  *)
(* (the file is left as it was); the parameter "1abc" carries the id 1,    *)
(* and the request acts on task 1: it is answered 404 exactly when no task *)
(* has id 1, and otherwise goes on to save the tasks with the task of id 1 *)
(* patched (Update) or removed (Delete).                                   *)
(***************************************************************************)
NotANumber == <<"a", "b", "c">>
NumericPrefix == <<"1", "a", "b", "c">>

ByParam(s) == pc[s] = "reading" /\ req[s].op \in {"update", "delete"}

C30_ParseIntParam ==
    /\ [](\A s \in Slots : ByParam(s) =>
            /\ req[s].param = NotANumber => req[s].id = NaN
            /\ req[s].param = NumericPrefix => req[s].id = 1)
    /\ [][\A s \in Slots : ByParam(s) /\ pc'[s] # "reading" =>
            /\ req[s].param = NotANumber =>
                  /\ pc'[s] = "done"
                  /\ resp'[s].status = 404
                  /\ io'[s].saves = 0
                  /\ file' = file
            /\ req[s].param = NumericPrefix =>
                  IF 1 \in Ids(OnFile)
                  THEN /\ pc'[s] = "writing"
                       /\ data'[s].doc.tasks =
                            Applied([req[s] EXCEPT !.id = 1], readData(file)).tasks
                  ELSE pc'[s] = "done" /\ resp'[s].status = 404]_vars

C30_Witness ==
    /\ pc["r1"] = "done"
    /\ req["r1"].op = "delete"
    /\ req["r1"].param = NumericPrefix
    /\ resp["r1"].status = 200
    /\ 1 \notin Ids(OnFile)
    /\ 2 \in Ids(OnFile)

====
